---- MODULE Spec2Model ----
(***************************************************************************)
(* configinator: Behold(config) fills the fields of a tagged struct from   *)
(* four sources, in rising precedence: the `default` tag, the OS           *)
(* environment, the .env file and the command-line flags.                  *)
(*                                                                         *)
(* Raw strings (tag values, environment values, .env values, flag          *)
(* arguments) are sequences of one-character strings, so that the          *)
(* conversions of strconv and time are computed character by character.    *)
(***************************************************************************)
EXTENDS Integers, Sequences, FiniteSets, TLC

(***************************************************************************)
(* Characters                                                              *)
(***************************************************************************)
Digits == {"0", "1", "2", "3", "4", "5", "6", "7", "8", "9"}

UpperLetters == {"A", "B", "C", "D", "E", "F", "G", "H", "I", "J", "K", "L", "M", "N", "O", "P", "Q", "R", "S", "T", "U", "V", "W", "X", "Y", "Z"}

\* Value of a character as a digit in bases up to 16; 99 for any other character.
CharVal(c) ==
    CASE c = "0" -> 0 [] c = "1" -> 1 [] c = "2" -> 2 [] c = "3" -> 3
      [] c = "4" -> 4 [] c = "5" -> 5 [] c = "6" -> 6 [] c = "7" -> 7
      [] c = "8" -> 8 [] c = "9" -> 9
      [] c \in {"a", "A"} -> 10 [] c \in {"b", "B"} -> 11
      [] c \in {"c", "C"} -> 12 [] c \in {"d", "D"} -> 13
      [] c \in {"e", "E"} -> 14 [] c \in {"f", "F"} -> 15
      [] OTHER -> 99

AllDigits(s) == \A i \in 1..Len(s) : s[i] \in Digits

Drop(s, n) == SubSeq(s, n + 1, Len(s))

Take(s, n) == SubSeq(s, 1, n)

RECURSIVE BaseValue(_, _)
\* The number a digit string denotes in the given base.
BaseValue(s, base) ==
    IF s = <<>> THEN 0
    ELSE BaseValue(Take(s, Len(s) - 1), base) * base + CharVal(s[Len(s)])

RECURSIVE DigitPrefixLen(_)
\* Number of leading decimal digits of s.
DigitPrefixLen(s) ==
    IF s = <<>> \/ Head(s) \notin Digits THEN 0 ELSE 1 + DigitPrefixLen(Tail(s))

RECURSIVE UpperPrefixLen(_)
\* Number of leading upper-case letters of s.
UpperPrefixLen(s) ==
    IF s = <<>> \/ Head(s) \notin UpperLetters THEN 0 ELSE 1 + UpperPrefixLen(Tail(s))

(***************************************************************************)
(* strconv                                                                 *)
(* A parse returns [ok, v]; when ok is FALSE, v is the type's zero value,  *)
(* as the Go functions return it beside a non-nil error.                   *)
(***************************************************************************)
HasSign(s) == Len(s) > 0 /\ s[1] \in {"+", "-"}

\* strconv.ParseBool: exactly these twelve spellings.
ParseBool(s) ==
    IF s \in {<<"1">>, <<"t">>, <<"T">>, <<"t", "r", "u", "e">>,
              <<"T", "R", "U", "E">>, <<"T", "r", "u", "e">>}
    THEN [ok |-> TRUE, v |-> TRUE]
    ELSE IF s \in {<<"0">>, <<"f">>, <<"F">>, <<"f", "a", "l", "s", "e">>,
                   <<"F", "A", "L", "S", "E">>, <<"F", "a", "l", "s", "e">>}
    THEN [ok |-> TRUE, v |-> FALSE]
    ELSE [ok |-> FALSE, v |-> FALSE]

\* strconv.Atoi: optional sign, then one or more decimal digits, nothing else.
Atoi(s) ==
    LET body == IF HasSign(s) THEN Tail(s) ELSE s
    IN  IF body = <<>> \/ ~AllDigits(body)
        THEN [ok |-> FALSE, v |-> 0]
        ELSE [ok |-> TRUE,
              v  |-> IF HasSign(s) /\ s[1] = "-"
                     THEN 0 - BaseValue(body, 10) ELSE BaseValue(body, 10)]

\* strconv.ParseInt(s, 0, 64), which flag's int value uses: the base comes from
\* the prefix (0b, 0o, 0x, or a leading 0 for octal).  Underscore separators
\* are not modelled.
ParseIntBase0(s) ==
    LET body   == IF HasSign(s) THEN Tail(s) ELSE s
        pfx(l) == Len(body) >= 3 /\ body[2] \in l
        base   == IF body # <<>> /\ body[1] = "0"
                  THEN IF pfx({"b", "B"}) THEN 2
                       ELSE IF pfx({"o", "O"}) THEN 8
                       ELSE IF pfx({"x", "X"}) THEN 16
                       ELSE 8
                  ELSE 10
        digs   == IF body # <<>> /\ body[1] = "0"
                  THEN IF pfx({"b", "B", "o", "O", "x", "X"})
                       THEN Drop(body, 2) ELSE Tail(body)
                  ELSE body
    IN  IF body = <<>> \/ \E i \in 1..Len(digs) : CharVal(digs[i]) >= base
        THEN [ok |-> FALSE, v |-> 0]
        ELSE [ok |-> TRUE,
              v  |-> IF HasSign(s) /\ s[1] = "-"
                     THEN 0 - BaseValue(digs, base) ELSE BaseValue(digs, base)]

RECURSIVE NormFloat(_, _)
\* A float64 is the decimal m * 10^e with m not divisible by ten (0 is <<0, 0>>),
\* so that two spellings of one number are one value.
NormFloat(m, e) ==
    IF m = 0 THEN [m |-> 0, e |-> 0]
    ELSE IF m % 10 = 0 THEN NormFloat(m \div 10, e + 1)
    ELSE [m |-> m, e |-> e]

ZeroFloat == [m |-> 0, e |-> 0]

\* The float64 NaN: a pair NormFloat never yields.
NaN == [m |-> 0, e |-> 1]

\* Go's != on float64: NaN differs from every value, itself included.
FloatNeq(a, b) == a = NaN \/ b = NaN \/ a # b

\* strconv.ParseFloat(s, 64): "nan" in any case (no sign), else the decimal
\* grammar: sign, digits, point, digits, exponent.  Infinities and
\* hexadecimal floats are not modelled.
ParseFloat(s) ==
    LET body    == IF HasSign(s) THEN Tail(s) ELSE s
        nInt    == DigitPrefixLen(body)
        aft1    == Drop(body, nInt)
        hasDot  == aft1 # <<>> /\ aft1[1] = "."
        fracS   == IF hasDot THEN Tail(aft1) ELSE aft1
        nFrac   == IF hasDot THEN DigitPrefixLen(fracS) ELSE 0
        aft2    == Drop(fracS, nFrac)
        hasExp  == aft2 # <<>> /\ aft2[1] \in {"e", "E"}
        expS    == IF hasExp THEN Tail(aft2) ELSE aft2
        expBody == IF hasExp /\ HasSign(expS) THEN Tail(expS) ELSE expS
        nExp    == IF hasExp THEN DigitPrefixLen(expBody) ELSE 0
        rest    == Drop(expBody, nExp)
        expV    == IF hasExp /\ HasSign(expS) /\ expS[1] = "-"
                   THEN 0 - BaseValue(Take(expBody, nExp), 10)
                   ELSE BaseValue(Take(expBody, nExp), 10)
        mant    == BaseValue(Take(body, nInt) \o Take(fracS, nFrac), 10)
    IN  IF Len(s) = 3 /\ s[1] \in {"n", "N"} /\ s[2] \in {"a", "A"} /\ s[3] \in {"n", "N"}
        THEN [ok |-> TRUE, v |-> NaN]
        ELSE IF nInt + nFrac = 0 \/ (hasExp /\ nExp = 0) \/ rest # <<>>
        THEN [ok |-> FALSE, v |-> ZeroFloat]
        ELSE [ok |-> TRUE,
              v  |-> NormFloat(IF HasSign(s) /\ s[1] = "-" THEN 0 - mant ELSE mant,
                               expV - nFrac)]

(***************************************************************************)
(* time                                                                    *)
(* A time.Time is its wall clock and its zone: UTC, a zone abbreviation,   *)
(* or a numeric offset, each spelled as in the parsed text.                *)
(***************************************************************************)
UTC == <<"U", "T", "C">>

\* time.Time{}: January 1, year 1, 00:00:00 UTC.
ZeroTime == [year |-> 1, month |-> 1, day |-> 1, hour |-> 0, min |-> 0, sec |-> 0, zone |-> UTC]

Lit(c) == [k |-> "lit", c |-> c]

Std(k) == [k |-> k, c |-> ""]

LayoutDate == <<Std("2006"), Lit("-"), Std("01"), Lit("-"), Std("02")>>

LayoutClock == <<Std("15"), Lit(":"), Std("04"), Lit(":"), Std("05")>>

\* The layouts Behold tries, in this order.
timeFormats ==
    << LayoutDate,
       LayoutDate \o <<Lit(" ")>> \o LayoutClock,
       LayoutDate \o <<Lit("T")>> \o LayoutClock,
       LayoutDate \o <<Lit("T")>> \o LayoutClock \o <<Lit("Z")>>,
       LayoutDate \o <<Lit("T")>> \o LayoutClock \o <<Lit(" "), Std("MST")>>,
       LayoutDate \o <<Lit("T")>> \o LayoutClock \o <<Std("-0700")>> >>

IsLeap(y) == y % 4 = 0 /\ (y % 100 # 0 \/ y % 400 = 0)

DaysIn(m, y) ==
    IF m = 2 THEN (IF IsLeap(y) THEN 29 ELSE 28)
    ELSE IF m \in {4, 6, 9, 11} THEN 30 ELSE 31

\* Length of the zone abbreviation at the head of s, 0 when there is none
\* (time.parseTimeZone: three upper-case letters, or four or five ending in T;
\* the GMT+n and signed-offset spellings are not modelled).
ZoneAbbrLen(s) ==
    LET n == UpperPrefixLen(s)
    IN  IF n = 3 THEN 3
        ELSE IF n = 4 /\ (s[4] = "T" \/ Take(s, 4) = <<"W", "I", "T", "A">>) THEN 4
        ELSE IF n = 5 /\ s[5] = "T" THEN 5
        ELSE 0

TimeFail == [ok |-> FALSE, v |-> ZeroTime]

RECURSIVE ParseLayout(_, _, _)
\* time.Parse(layout, s): consume s element by element of the layout; acc is the
\* time read so far.  The day is checked against the month once all is read.
\* Fractional seconds after the seconds field are not modelled.
ParseLayout(layout, s, acc) ==
    IF layout = <<>>
    THEN IF s # <<>> \/ acc.day < 1 \/ acc.day > DaysIn(acc.month, acc.year)
         THEN TimeFail
         ELSE [ok |-> TRUE, v |-> acc]
    ELSE
    LET tok  == Head(layout)
        rest == Tail(layout)
        two  == IF Len(s) >= 2 /\ AllDigits(Take(s, 2)) THEN BaseValue(Take(s, 2), 10) ELSE -1
    IN  CASE tok.k = "lit" ->
               IF s # <<>> /\ s[1] = tok.c THEN ParseLayout(rest, Tail(s), acc) ELSE TimeFail
          [] tok.k = "2006" ->
               IF Len(s) >= 4 /\ AllDigits(Take(s, 4))
               THEN ParseLayout(rest, Drop(s, 4), [acc EXCEPT !.year = BaseValue(Take(s, 4), 10)])
               ELSE TimeFail
          [] tok.k = "01" ->
               IF two >= 1 /\ two <= 12
               THEN ParseLayout(rest, Drop(s, 2), [acc EXCEPT !.month = two])
               ELSE TimeFail
          [] tok.k = "02" ->
               IF two >= 0
               THEN ParseLayout(rest, Drop(s, 2), [acc EXCEPT !.day = two])
               ELSE TimeFail
          [] tok.k = "15" ->
               \* one or two digits
               LET n == IF two >= 0 THEN 2 ELSE IF s # <<>> /\ s[1] \in Digits THEN 1 ELSE 0
                   h == BaseValue(Take(s, n), 10)
               IN  IF n > 0 /\ h < 24
                   THEN ParseLayout(rest, Drop(s, n), [acc EXCEPT !.hour = h])
                   ELSE TimeFail
          [] tok.k = "04" ->
               IF two >= 0 /\ two < 60
               THEN ParseLayout(rest, Drop(s, 2), [acc EXCEPT !.min = two])
               ELSE TimeFail
          [] tok.k = "05" ->
               IF two >= 0 /\ two < 60
               THEN ParseLayout(rest, Drop(s, 2), [acc EXCEPT !.sec = two])
               ELSE TimeFail
          [] tok.k = "MST" ->
               LET n == ZoneAbbrLen(s)
               IN  IF n > 0
                   THEN ParseLayout(rest, Drop(s, n), [acc EXCEPT !.zone = Take(s, n)])
                   ELSE TimeFail
          [] tok.k = "-0700" ->
               IF /\ Len(s) >= 5
                  /\ s[1] \in {"+", "-"}
                  /\ AllDigits(SubSeq(s, 2, 5))
                  /\ BaseValue(SubSeq(s, 2, 3), 10) <= 24
                  /\ BaseValue(SubSeq(s, 4, 5), 10) <= 60
               THEN ParseLayout(rest, Drop(s, 5), [acc EXCEPT !.zone = Take(s, 5)])
               ELSE TimeFail
          [] OTHER -> TimeFail

TimeParse(layout, s) == ParseLayout(layout, s, ZeroTime)

\* (*TimeContainer).parseTime: the first layout that parses, else the zero time.
RECURSIVE parseTimeFrom(_, _)
parseTimeFrom(formats, value) ==
    IF formats = <<>> THEN ZeroTime
    ELSE LET t == TimeParse(Head(formats), value)
         IN  IF t.ok THEN t.v ELSE parseTimeFrom(Tail(formats), value)

parseTime(value) == parseTimeFrom(timeFormats, value)

\* (*TimeContainer).isTime: whether any layout parses.
isTime(value) == \E i \in 1..Len(timeFormats) : TimeParse(timeFormats[i], value).ok

(***************************************************************************)
(* The state                                                               *)
(***************************************************************************)
VARIABLES
    fields,      \* the struct type passed to Behold: one declaration per field
    environ,     \* the OS environment: name -> raw value
    dotEnv,      \* the .env file: absent, unreadable, or its name -> raw value mapping
    osArgs,      \* os.Args[1:]
    formal,      \* flag.CommandLine: flag name -> [kind, value]
    parsed,      \* flag.Parsed()
    pc,          \* where Behold is: idle, construct, parse, apply, dead
    index,       \* the loop index of Behold (1-based)
    calls,       \* Behold calls begun so far
    config,      \* the configuration object of the current call: one value per field
    pre,         \* what that object held when the call began
    envFile,     \* the mapping Behold loaded from .env in this call
    containers,  \* Behold's containers slice
    errs,        \* the error container.New returned per field (Behold drops it)
    results,     \* per returned call, in order: what the object held before and after
    failure,     \* why the process died, "" while it lives
    twin         \* the object of a second run of the same call, in step with this
                 \* one, that began with the other contents

vars == <<fields, environ, dotEnv, osArgs, formal, parsed, pc, index, calls, config, pre, envFile, containers, errs, results, failure, twin>>

EmptyMap == [n \in {} |-> <<>>]

NumField == Len(fields)

(***************************************************************************)
(* package container                                                       *)
(***************************************************************************)
NilContainer == [kind |-> "nil"]

NilPointer == [set |-> FALSE, name |-> ""]

ErrNoFlagName == "no flag name"

ErrCantSet == "can't set private fields"

\* os.Getenv: the empty string for an unset variable.
Getenv(name) == IF name \in DOMAIN environ THEN environ[name] ELSE <<>>

\* Faulty variant: the flag tag is not required.
newBaseContainerAnyTag(i, file) ==
    IF ~fields[i].exported THEN [err |-> ErrCantSet]
    ELSE [err          |-> "",
          kind         |-> "",
          flagValue    |-> NilPointer,
          index        |-> i,
          defaultValue |-> fields[i].default,
          envFile      |-> file,
          envName      |-> fields[i].env,
          flagName     |-> fields[i].flag]

\* newBaseContainer: the tags of field i, or an error.
newBaseContainer(i, file) ==
    IF ~fields[i].exported THEN [err |-> ErrCantSet]
    ELSE IF ~fields[i].hasFlag THEN [err |-> ErrNoFlagName]
    ELSE [err          |-> "",
          kind         |-> "",
          flagValue    |-> NilPointer,
          index        |-> i,
          defaultValue |-> fields[i].default,
          envFile      |-> file,
          envName      |-> fields[i].env,
          flagName     |-> fields[i].flag]

\* GetDefaultValue of each container type: the default tag parsed, the zero
\* value when it does not parse.
GetDefaultValue(c) ==
    CASE c.kind = "bool"      -> ParseBool(c.defaultValue).v
      [] c.kind = "int"       -> Atoi(c.defaultValue).v
      [] c.kind = "float64"   -> ParseFloat(c.defaultValue).v
      [] c.kind = "string"    -> c.defaultValue
      [] c.kind = "time.time" -> IF ~isTime(c.defaultValue) THEN ZeroTime
                                 ELSE parseTime(c.defaultValue)

\* The zero value of a field type.  A time.Duration is held in whole seconds.
ZeroValue(kind) ==
    CASE kind = "bool"      -> FALSE
      [] kind = "int"       -> 0
      [] kind = "float64"   -> ZeroFloat
      [] kind = "string"    -> <<>>
      [] kind = "time.time" -> ZeroTime
      [] OTHER              -> 0

\* strconv's parse for a container type.
ParseAs(kind, value) ==
    CASE kind = "bool"    -> ParseBool(value)
      [] kind = "int"     -> Atoi(value)
      [] kind = "float64" -> ParseFloat(value)

\* What an accessor returns: (value, true), or (zero value, false).
Found(value) == [v |-> value, ok |-> TRUE]

NotFound(kind) == [v |-> ZeroValue(kind), ok |-> FALSE]

\* `if result, err := strconv...(value); err == nil { return result, true }`
IfParsed(kind, r) == IF r.ok THEN Found(r.v) ELSE NotFound(kind)

\* GetEnvValue of each container type.
GetEnvValue(c) ==
    LET value == Getenv(c.envName)
    IN  CASE c.kind \in {"bool", "int", "float64"} ->
               IF value # <<>> THEN IfParsed(c.kind, ParseAs(c.kind, value))
               ELSE NotFound(c.kind)
          [] c.kind = "string" ->
               IF value # <<>> THEN Found(value) ELSE NotFound(c.kind)
          [] c.kind = "time.time" ->
               IF value # <<>> THEN Found(parseTime(value)) ELSE NotFound(c.kind)

\* GetEnvFileValue of each container type.
GetEnvFileValue(c) ==
    LET ok    == c.envName \in DOMAIN c.envFile
        value == c.envFile[c.envName]
    IN  CASE c.kind \in {"bool", "int", "float64"} ->
               IF ok THEN IfParsed(c.kind, ParseAs(c.kind, value))
               ELSE NotFound(c.kind)
          [] c.kind = "string" ->
               IF ok THEN Found(value) ELSE NotFound(c.kind)
          [] c.kind = "time.time" ->
               IF ok THEN Found(parseTime(value)) ELSE NotFound(c.kind)

\* *c.flagValue: the flag package's variable the pointer refers to.
Deref(ptr) == formal[ptr.name].value

\* GetFlagValue of each container type.
GetFlagValue(c) ==
    CASE c.kind \in {"bool", "int", "string"} ->
           IF c.flagValue.set /\ Deref(c.flagValue) # GetDefaultValue(c)
           THEN Found(Deref(c.flagValue)) ELSE NotFound(c.kind)
      [] c.kind = "float64" ->
           IF c.flagValue.set /\ FloatNeq(Deref(c.flagValue), GetDefaultValue(c))
           THEN Found(Deref(c.flagValue)) ELSE NotFound(c.kind)
      [] c.kind = "time.time" ->
           IF c.flagValue.set /\ Deref(c.flagValue) # c.defaultValue
           THEN Found(parseTime(Deref(c.flagValue))) ELSE NotFound(c.kind)

\* SetConfigValue: write the field the container is bound to.
SetConfigValue(cfg, c, value) == [cfg EXCEPT ![c.index] = value]

(***************************************************************************)
(* package flag                                                            *)
(***************************************************************************)
\* FlagSet.Var on flag.CommandLine: define flag `name`; defining it twice panics.
FlagVar(f, name, kind, value) ==
    IF name \in DOMAIN f
    THEN [panic |-> TRUE, formal |-> f]
    ELSE [panic |-> FALSE, formal |-> (name :> [kind |-> kind, value |-> value]) @@ f]

\* Value.Set of each flag kind; the int value parses with base 0.
FlagSetValue(kind, value) ==
    CASE kind = "bool"    -> ParseBool(value)
      [] kind = "int"     -> ParseIntBase0(value)
      [] kind = "float64" -> ParseFloat(value)
      [] kind = "string"  -> [ok |-> TRUE, v |-> value]

\* An argument as the text it was on the command line (flag names are one character).
ArgText(a) ==
    IF a.dash
    THEN <<"-", a.name>> \o (IF a.hasValue THEN <<"=">> \o a.value ELSE <<>>)
    ELSE a.value

\* The value a flag argument carries: its own, "true" for a bare boolean flag,
\* else the next argument.
FlagArgValue(args, isBool) ==
    IF Head(args).hasValue THEN Head(args).value
    ELSE IF isBool THEN <<"t", "r", "u", "e">>
    ELSE IF Len(args) > 1 THEN ArgText(args[2]) ELSE <<>>

RECURSIVE FlagParseArgs(_, _)
\* One flag argument of a defined flag, `set` being its value parsed, then the rest.
FlagParseSet(args, f, isBool, set) ==
    IF ~isBool /\ ~Head(args).hasValue /\ Len(args) = 1
    THEN [err |-> "flag needs an argument", formal |-> f]
    ELSE IF ~set.ok THEN [err |-> "invalid value", formal |-> f]
    ELSE FlagParseArgs(IF Head(args).hasValue \/ isBool THEN Tail(args) ELSE Tail(Tail(args)),
                       [f EXCEPT ![Head(args).name].value = set.v])

\* FlagSet.Parse: parseOne until the arguments end, a non-flag argument is met
\* or one fails.  err is "" on success.
FlagParseArgs(args, f) ==
    IF args = <<>> \/ ~Head(args).dash THEN [err |-> "", formal |-> f]
    ELSE IF Head(args).name \notin DOMAIN f
    THEN [err |-> IF Head(args).name = "h" THEN "help requested"
                  ELSE "flag provided but not defined",
          formal |-> f]
    ELSE FlagParseSet(args, f, f[Head(args).name].kind = "bool",
                      FlagSetValue(f[Head(args).name].kind,
                                   FlagArgValue(args, f[Head(args).name].kind = "bool")))

(***************************************************************************)
(* container.New and its constructors                                      *)
(***************************************************************************)
\* Faulty variant: the constructor does not write the default.
NewResultNoWrite(c, f, cfg) ==
    [c |-> c, err |-> "", panic |-> FALSE, formal |-> f, config |-> cfg]

\* Faulty variant: the constructor writes the default only into a field that
\* holds its zero value.
NewResultIfZero(c, f, cfg) ==
    [c |-> c, err |-> "", panic |-> FALSE, formal |-> f,
     config |-> IF cfg[c.index] = ZeroValue(c.kind)
                THEN SetConfigValue(cfg, c, GetDefaultValue(c)) ELSE cfg]

\* The end of a constructor: `result.SetConfigValue(result.GetDefaultValue())`.
NewResult(c, f, cfg) ==
    [c |-> c, err |-> "", panic |-> FALSE, formal |-> f,
     config |-> SetConfigValue(cfg, c, GetDefaultValue(c))]

\* `result.flagValue = flag.X(result.flagName, default, result.description)`: the
\* time container registers a string flag whose default is the raw tag.
NewFlag(c, f) ==
    IF c.kind = "time.time"
    THEN FlagVar(f, c.flagName, "string", c.defaultValue)
    ELSE FlagVar(f, c.flagName, c.kind, GetDefaultValue(c))

NewRegistered(c, reg, f, cfg) ==
    IF reg.panic
    THEN [c |-> NilContainer, err |-> "", panic |-> TRUE, formal |-> f, config |-> cfg]
    ELSE NewResult([c EXCEPT !.flagValue = [set |-> TRUE, name |-> c.flagName]], reg.formal, cfg)

\* NewBool, NewInt, NewFloat64, NewString, NewTime for field i, given
\* newBaseContainer's result: the container, flag.CommandLine and the
\* configuration object after it, or a panic.
NewTyped(kind, base, f, cfg) ==
    IF base.err # ""
    THEN [c |-> NilContainer, err |-> base.err, panic |-> FALSE, formal |-> f, config |-> cfg]
    ELSE IF ~parsed
    THEN NewRegistered([base EXCEPT !.kind = kind], NewFlag([base EXCEPT !.kind = kind], f), f, cfg)
    ELSE NewResult([base EXCEPT !.kind = kind], f, cfg)

NewContainer(kind, i, file, f, cfg) == NewTyped(kind, newBaseContainer(i, file), f, cfg)

SupportedTypes == {"bool", "int", "float64", "string", "time.time"}

\* Faulty variant: a type outside the switch is built as an int.
NewDefaultsToInt(i, file, f, cfg) ==
    IF fields[i].type \in SupportedTypes
    THEN NewContainer(fields[i].type, i, file, f, cfg)
    ELSE NewContainer("int", i, file, f, cfg)

\* container.New: dispatch on the lower-cased type name of field i.
New(i, file, f, cfg) ==
    IF fields[i].type \in SupportedTypes
    THEN NewContainer(fields[i].type, i, file, f, cfg)
    ELSE [c |-> NilContainer, err |-> "unsupported field type: " \o fields[i].type,
          panic |-> FALSE, formal |-> f, config |-> cfg]

(***************************************************************************)
(* package configinator                                                    *)
(***************************************************************************)
\* applyValueWithPrecedence: environment, then .env file, then flag.
\* Faulty variant: the .env file applied before the environment.
applyValueEnvLast(c, cfg) ==
    IF GetFlagValue(c).ok THEN SetConfigValue(cfg, c, GetFlagValue(c).v)
    ELSE IF GetEnvValue(c).ok THEN SetConfigValue(cfg, c, GetEnvValue(c).v)
    ELSE IF GetEnvFileValue(c).ok THEN SetConfigValue(cfg, c, GetEnvFileValue(c).v)
    ELSE cfg

\* `if value, ok := c.GetXValue(); ok { c.SetConfigValue(value) }`
ApplyIfOk(cfg, c, r) == IF r.ok THEN SetConfigValue(cfg, c, r.v) ELSE cfg

applyValueWithPrecedence(c, cfg) ==
    ApplyIfOk(ApplyIfOk(ApplyIfOk(cfg, c, GetEnvValue(c)), c, GetEnvFileValue(c)), c, GetFlagValue(c))

(***************************************************************************)
(* The process: a struct type, an environment, a .env file and a command   *)
(* line, then Behold called up to MaxCalls times, each time on a new       *)
(* object of the struct type.                                              *)
(***************************************************************************)
MaxCalls == 2

Date2023 == <<"2", "0", "2", "3", "-", "0", "1", "-", "0", "1">>

Midnight == <<"0", "0", ":", "0", "0", ":", "0", "0">>

\* Raw values offered to a field of each type, by the environment, the .env
\* file and the command line: valid spellings (two of them of one value),
\* a malformed one and the empty string.
RawsFor(type) ==
    CASE type = "bool" ->
           {<<"t", "r", "u", "e">>, <<"0">>, <<"y", "e", "s">>, <<>>}
      [] type = "int" ->
           {<<"1">>, <<"0">>, <<"0", "1", "0">>, <<"x">>, <<>>}
      [] type = "float64" ->
           {<<"1", ".", "5">>, <<"1", "5", "e", "-", "1">>, <<"2">>, <<"x">>, <<>>}
      [] type = "string" ->
           {<<"a">>, <<"b">>, <<"c">>, <<>>}
      [] type = "time.time" ->
           {Date2023 \o <<"T">> \o Midnight \o <<"Z">>,
            Date2023,
            <<"2", "0", "2", "4", "-", "0", "2", "-", "2", "9">>,
            <<"2", "0", "2", "3", "-", "0", "2", "-", "3", "0">>,
            <<>>}
      [] OTHER -> {<<"3", "4", "s">>}

\* The default tags tried for a field of each type: one that parses to a
\* non-zero value and one that does not parse (for a string, the empty one;
\* for a float64, also NaN).
DefaultsFor(type) ==
    CASE type = "bool"      -> {<<"t", "r", "u", "e">>, <<"f", "a", "l", "s", "e">>}
      [] type = "int"       -> {<<"1">>, <<"x">>}
      [] type = "float64"   -> {<<"1", ".", "5">>, <<"x">>, <<"N", "a", "N">>}
      [] type = "string"    -> {<<"a">>, <<>>}
      [] type = "time.time" -> {Date2023 \o <<"T">> \o Midnight \o <<"Z">>, <<"x">>}

Field(type, hasFlag, flagName, envName, default, exported) ==
    [type |-> type, hasFlag |-> hasFlag, flag |-> flagName, env |-> envName,
     default |-> default, exported |-> exported]

\* A field of a supported type with all its tags: flag "p", env "P".
Tagged(type, default) == Field(type, TRUE, "p", "P", default, TRUE)

\* Second fields: one without a flag tag, a time.Duration (the README's
\* Duration field), one reusing flag name "p", an unexported one, and an int
\* field with flag "q" and no env tag.
SecondFields ==
    { Field("string", FALSE, "", "P", <<"a">>, TRUE),
      Field("time.duration", TRUE, "d", "", <<"3", "4", "s">>, TRUE),
      Field("string", TRUE, "p", "", <<"b">>, TRUE),
      Field("string", TRUE, "q", "P", <<"b">>, FALSE),
      Field("int", TRUE, "q", "", <<"7">>, TRUE) }

StructTypes ==
    UNION { { <<Tagged(t, d)>> : d \in DefaultsFor(t) } : t \in SupportedTypes }
      \cup { <<Tagged("string", <<"a">>), f>> : f \in SecondFields }
      \cup { <<f, Tagged("int", <<"1">>)>> : f \in SecondFields }

\* The type the sources of variable "P" and flag "p" are drawn for.
FocusType(st) == IF st[1].flag = "p" /\ st[1].env = "P" THEN st[1].type ELSE st[Len(st)].type

Environs(st) ==
    {EmptyMap} \cup { ("P" :> v) : v \in RawsFor(FocusType(st)) }

DotEnvs(st) ==
    { [state |-> "absent", map |-> EmptyMap],
      [state |-> "unreadable", map |-> EmptyMap],
      [state |-> "ok", map |-> EmptyMap] }
      \cup { [state |-> "ok", map |-> ("P" :> v)] : v \in RawsFor(FocusType(st)) }

FlagArg(name, value) == [dash |-> TRUE, name |-> name, hasValue |-> TRUE, value |-> value]

BareFlag(name) == [dash |-> TRUE, name |-> name, hasValue |-> FALSE, value |-> <<>>]

Positional(value) == [dash |-> FALSE, name |-> "", hasValue |-> FALSE, value |-> value]

ArgLists(st) ==
    { <<>>, <<BareFlag("p")>>, <<FlagArg("u", <<"1">>)>>, <<Positional(<<"a">>)>>,
      <<BareFlag("p"), Positional(<<"1">>)>>, <<FlagArg("q", <<"5">>)>> }
      \cup { <<FlagArg("p", v)>> : v \in RawsFor(FocusType(st)) }

\* What a new configuration object may hold before Behold: the zero values, or
\* values its maker put there.
NonZeroValue(type) ==
    CASE type = "bool"      -> TRUE
      [] type = "int"       -> 9
      [] type = "float64"   -> [m |-> 9, e |-> 0]
      [] type = "string"    -> <<"z">>
      [] type = "time.time" -> [ZeroTime EXCEPT !.year = 1999]
      [] OTHER              -> 9

Objects(st) ==
    { [i \in 1..Len(st) |-> ZeroValue(st[i].type)],
      [i \in 1..Len(st) |-> NonZeroValue(st[i].type)] }

\* The object a second run starts from: the one with the other contents.
OtherObject(object) == CHOOSE o \in Objects(fields) : o # object

Init ==
    /\ fields \in StructTypes
    /\ environ \in Environs(fields)
    /\ dotEnv \in DotEnvs(fields)
    /\ osArgs \in ArgLists(fields)
    /\ formal = EmptyMap
    /\ parsed = FALSE
    /\ pc = "idle"
    /\ index = 0
    /\ calls = 0
    /\ config = <<>>
    /\ pre = <<>>
    /\ envFile = EmptyMap
    /\ containers = <<>>
    /\ errs = <<>>
    /\ results = <<>>
    /\ failure = ""
    /\ twin = <<>>

\* A panic or os.Exit: the process is gone.
Die(why) ==
    /\ pc' = "dead"
    /\ failure' = why

\* env.FileExists(".env") and env.ReadFile(".env")
EnvFileExists == dotEnv.state # "absent"

EnvReadFile == [err |-> dotEnv.state = "unreadable", map |-> dotEnv.map]

\* Behold, lines 28-50: load .env, read the struct type, make the containers slice.
BeholdEnter(kind, object) ==
    /\ pc = "idle"
    /\ calls < MaxCalls
    /\ calls' = calls + 1
    /\ IF EnvFileExists /\ EnvReadFile.err
       THEN /\ Die("env file unreadable")
            /\ UNCHANGED <<config, pre, envFile, containers, errs, index, twin>>
       ELSE IF kind # "pointer to struct"
       THEN /\ Die("reflect: Elem of invalid type")
            /\ UNCHANGED <<config, pre, envFile, containers, errs, index, twin>>
       ELSE /\ envFile' = IF EnvFileExists THEN EnvReadFile.map ELSE EmptyMap
            /\ config' = object
            /\ pre' = object
            /\ twin' = OtherObject(object)
            /\ containers' = [i \in 1..NumField |-> NilContainer]
            /\ errs' = [i \in 1..NumField |-> ""]
            /\ index' = 1
            /\ pc' = "construct"
            /\ UNCHANGED failure
    /\ UNCHANGED <<fields, environ, dotEnv, osArgs, formal, parsed, results>>

\* Behold, lines 57-59: one turn of the loop that builds the containers; rt is
\* the same turn on the twin object.
BeholdNewDone(r, rt) ==
    IF r.panic
    THEN /\ Die("flag redefined: " \o fields[index].flag)
         /\ UNCHANGED <<containers, errs, formal, config, index, twin>>
    ELSE /\ containers' = [containers EXCEPT ![index] = r.c]
         /\ errs' = [errs EXCEPT ![index] = r.err]
         /\ formal' = r.formal
         /\ config' = r.config
         /\ twin' = rt.config
         /\ index' = IF index = NumField THEN 0 ELSE index + 1
         /\ pc' = IF index = NumField THEN "parse" ELSE "construct"
         /\ UNCHANGED failure

BeholdNew ==
    /\ pc = "construct"
    /\ BeholdNewDone(New(index, envFile, formal, config), New(index, envFile, formal, twin))
    /\ UNCHANGED <<fields, environ, dotEnv, osArgs, parsed, calls, pre, envFile, results>>

BeholdParseDone(r) ==
    /\ formal' = r.formal
    /\ IF r.err # ""
       THEN Die("flag.Parse: " \o r.err) /\ UNCHANGED index
       ELSE pc' = "apply" /\ index' = 1 /\ UNCHANGED failure

\* Behold, lines 64-66, when the guard holds: flag.Parse(), which exits the
\* process when an argument is wrong.
BeholdParse ==
    /\ pc = "parse"
    /\ Len(osArgs) + 1 > 1 /\ ~parsed
    /\ parsed' = TRUE
    /\ BeholdParseDone(FlagParseArgs(osArgs, formal))
    /\ UNCHANGED <<fields, environ, dotEnv, osArgs, calls, config, pre, envFile, containers, errs, results, twin>>

\* Behold, lines 64-66, when the guard fails: no parse.
BeholdSkipParse ==
    /\ pc = "parse"
    /\ ~(Len(osArgs) + 1 > 1 /\ ~parsed)
    /\ pc' = "apply"
    /\ index' = 1
    /\ UNCHANGED <<fields, environ, dotEnv, osArgs, formal, parsed, calls, config, pre, envFile, containers, errs, results, failure, twin>>

\* Behold, lines 72-87: one turn of the loop that applies the sources; a nil
\* container matches no case of the type switch.
BeholdApply ==
    /\ pc = "apply"
    /\ index <= NumField
    /\ config' = IF containers[index].kind = "nil" THEN config
                 ELSE applyValueWithPrecedence(containers[index], config)
    /\ twin' = IF containers[index].kind = "nil" THEN twin
               ELSE applyValueWithPrecedence(containers[index], twin)
    /\ index' = index + 1
    /\ UNCHANGED <<fields, environ, dotEnv, osArgs, formal, parsed, pc, calls, pre, envFile, containers, errs, results, failure>>

\* Behold, line 88: return to the caller.
BeholdReturn ==
    /\ pc = "apply"
    /\ index > NumField
    /\ pc' = "idle"
    /\ index' = 0
    /\ results' = Append(results, [object |-> pre, values |-> config])
    /\ UNCHANGED <<fields, environ, dotEnv, osArgs, formal, parsed, calls, config, pre, envFile, containers, errs, failure, twin>>

Next ==
    \/ \E kind \in {"pointer to struct", "struct"} : \E object \in Objects(fields) : BeholdEnter(kind, object)
    \/ BeholdNew
    \/ BeholdParse
    \/ BeholdSkipParse
    \/ BeholdApply
    \/ BeholdReturn

Spec == Init /\ [][Next]_vars

(***************************************************************************)
(* Vocabulary of the properties                                            *)
(***************************************************************************)
\* Behold has just returned; config is the object it filled.
Returned == pc = "idle" /\ calls > 0

\* Field i is one Behold builds a container for.
Resolvable(i) ==
    fields[i].type \in SupportedTypes /\ fields[i].hasFlag /\ fields[i].exported

\* The default tag of field i parsed into the field's type.
ParsedDefault(i) == GetDefaultValue([kind |-> fields[i].type, defaultValue |-> fields[i].default])

\* The sources as the process was given them.
EnvSet(i) == fields[i].env \in DOMAIN environ

EnvFileEntry(i) == dotEnv.state = "ok" /\ fields[i].env \in DOMAIN dotEnv.map

FlagArgs(i) == { k \in 1..Len(osArgs) : osArgs[k].dash /\ osArgs[k].name = fields[i].flag }

NoSource(i) == ~EnvSet(i) /\ ~EnvFileEntry(i) /\ FlagArgs(i) = {}

\* Whether a raw value parses as the field type, and what it parses to, in the
\* environment and the .env file (strconv, parseTime) ...
RawValid(type, raw) ==
    CASE type \in {"bool", "int", "float64"} -> ParseAs(type, raw).ok
      [] type = "string"                     -> TRUE
      [] type = "time.time"                  -> isTime(raw)

RawValue(type, raw) ==
    CASE type \in {"bool", "int", "float64"} -> ParseAs(type, raw).v
      [] type = "string"                     -> raw
      [] type = "time.time"                  -> parseTime(raw)

\* ... and on the command line (the flag package's own parse).
FlagRawValid(type, raw) ==
    IF type = "time.time" THEN isTime(raw) ELSE FlagSetValue(type, raw).ok

FlagRawValue(type, raw) ==
    IF type = "time.time" THEN parseTime(raw) ELSE FlagSetValue(type, raw).v

\* The value the precedence rule gives field i from what its accessors report:
\* flag, else .env file, else environment, else default.
ByPrecedence(c) ==
    IF GetFlagValue(c).ok THEN GetFlagValue(c).v
    ELSE IF GetEnvFileValue(c).ok THEN GetEnvFileValue(c).v
    ELSE IF GetEnvValue(c).ok THEN GetEnvValue(c).v
    ELSE GetDefaultValue(c)

(***************************************************************************)
(* C1: after Behold returns, every field of a supported type with a flag   *)
(* name holds the flag value if the flag source is present, else the       *)
(* env-file value if that is present, else the environment value if that   *)
(* is present, else the parsed default.                                    *)
(***************************************************************************)
C1_Precedence ==
    Returned =>
        \A i \in 1..NumField : Resolvable(i) => config[i] = ByPrecedence(containers[i])

\* All three override sources are present for a field, with three different values.
C1_Witness ==
    /\ Returned
    /\ \E i \in 1..NumField :
          /\ Resolvable(i)
          /\ GetFlagValue(containers[i]).ok
          /\ GetEnvFileValue(containers[i]).ok
          /\ GetEnvValue(containers[i]).ok
          /\ GetEnvFileValue(containers[i]).v # GetEnvValue(containers[i]).v
          /\ GetFlagValue(containers[i]).v # GetEnvFileValue(containers[i]).v
          /\ GetFlagValue(containers[i]).v # GetEnvValue(containers[i]).v

(***************************************************************************)
(* C3: with no environment variable, no env-file entry and no flag         *)
(* argument for a field, the field holds its parsed default after Behold.  *)
(***************************************************************************)
C3_Default ==
    Returned =>
        \A i \in 1..NumField : (Resolvable(i) /\ NoSource(i)) => config[i] = ParsedDefault(i)

\* A field with no source whose object held something else before the call.
C3_Witness ==
    /\ Returned
    /\ \E i \in 1..NumField :
          /\ Resolvable(i)
          /\ NoSource(i)
          /\ ParsedDefault(i) # ZeroValue(fields[i].type)
          /\ pre[i] # ParsedDefault(i)

(***************************************************************************)
(* C2: when a flag, an env-file entry and an environment variable are all  *)
(* set for a field, to three different valid (and non-empty) values, the   *)
(* field equals the flag's parsed value after Behold.                      *)
(***************************************************************************)
C2_FlagWins ==
    Returned =>
        \A i \in 1..NumField : \A k \in FlagArgs(i) :
            LET t == fields[i].type
            IN  ( /\ Resolvable(i)
                  /\ osArgs[k].hasValue /\ osArgs[k].value # <<>>
                  /\ FlagRawValid(t, osArgs[k].value)
                  /\ EnvFileEntry(i) /\ dotEnv.map[fields[i].env] # <<>>
                  /\ RawValid(t, dotEnv.map[fields[i].env])
                  /\ EnvSet(i) /\ environ[fields[i].env] # <<>>
                  /\ RawValid(t, environ[fields[i].env])
                  /\ FlagRawValue(t, osArgs[k].value) # RawValue(t, dotEnv.map[fields[i].env])
                  /\ FlagRawValue(t, osArgs[k].value) # RawValue(t, environ[fields[i].env])
                  /\ RawValue(t, dotEnv.map[fields[i].env]) # RawValue(t, environ[fields[i].env]) )
                => config[i] = FlagRawValue(t, osArgs[k].value)

(***************************************************************************)
(* C4: a raw value that does not parse as the field's type counts as       *)
(* absent: with no flag argument for it, a field whose environment value   *)
(* or env-file value is malformed (not empty, and not parsing) holds the   *)
(* value of the next source down that is present and well-formed, or the   *)
(* default.                                                                *)
(***************************************************************************)
C4_MalformedIsAbsent ==
    Returned =>
        \A i \in 1..NumField :
            LET t       == fields[i].type
                envOk   == EnvSet(i) /\ environ[fields[i].env] # <<>>
                              /\ RawValid(t, environ[fields[i].env])
                envBad  == EnvSet(i) /\ environ[fields[i].env] # <<>>
                              /\ ~RawValid(t, environ[fields[i].env])
                fileOk  == EnvFileEntry(i) /\ RawValid(t, dotEnv.map[fields[i].env])
                fileBad == EnvFileEntry(i) /\ dotEnv.map[fields[i].env] # <<>>
                              /\ ~RawValid(t, dotEnv.map[fields[i].env])
            IN  (Resolvable(i) /\ FlagArgs(i) = {} /\ (envBad \/ fileBad))
                => config[i] = IF fileOk THEN RawValue(t, dotEnv.map[fields[i].env])
                               ELSE IF envOk THEN RawValue(t, environ[fields[i].env])
                               ELSE ParsedDefault(i)

(***************************************************************************)
(* C5: idempotence: two Behold calls in one process, each on a new object  *)
(* holding the same values, with the same environment, .env file and       *)
(* command line, both return and leave identical field values, with and    *)
(* without command-line arguments.                                         *)
(***************************************************************************)
C5_Idempotent ==
    /\ \A a, b \in 1..Len(results) :
          results[a].object = results[b].object => results[a].values = results[b].values
    /\ (pc = "dead" /\ Len(results) >= 1) => failure = "reflect: Elem of invalid type"

(***************************************************************************)
(* C6: a Behold call after the first skips flag registration, and still    *)
(* resolves each field from the flag values given on the command line.     *)
(***************************************************************************)
C6_LaterPassResolves ==
    /\ Len(results) >= 1 => \A i \in 1..NumField : failure # "flag redefined: " \o fields[i].flag
    /\ (Returned /\ Len(results) >= 2) =>
          \A i \in 1..NumField : \A k \in FlagArgs(i) :
              ( /\ Resolvable(i)
                /\ osArgs[k].hasValue /\ FlagRawValid(fields[i].type, osArgs[k].value)
                /\ FlagRawValue(fields[i].type, osArgs[k].value) # ParsedDefault(i) )
              => config[i] = FlagRawValue(fields[i].type, osArgs[k].value)

(***************************************************************************)
(* C7: Behold fails only when the .env file exists but cannot be read, or  *)
(* when its argument is not a pointer to a struct.                         *)
(***************************************************************************)
C7_FailsOnly ==
    pc = "dead" => failure \in {"env file unreadable", "reflect: Elem of invalid type"}

(***************************************************************************)
(* C8: a field with no flag tag is skipped: no flag is registered for it,  *)
(* it keeps the value it had before the call, and the other fields are     *)
(* still resolved by precedence.                                           *)
(***************************************************************************)
C8_NoFlagSkipped ==
    /\ \A n \in DOMAIN formal : \E j \in 1..NumField : fields[j].hasFlag /\ fields[j].flag = n
    /\ \A i \in 1..Len(config) : ~fields[i].hasFlag => config[i] = pre[i]
    /\ (Returned /\ \E i \in 1..NumField : ~fields[i].hasFlag) =>
          \A j \in 1..NumField : Resolvable(j) => config[j] = ByPrecedence(containers[j])

\* Behold returned; the untagged field held a value before, and the other
\* field was overridden from the environment.
C8_Witness ==
    /\ Returned
    /\ \E i, j \in 1..NumField :
          /\ ~fields[i].hasFlag
          /\ pre[i] # ZeroValue(fields[i].type)
          /\ Resolvable(j)
          /\ GetEnvValue(containers[j]).ok
          /\ config[j] # ParsedDefault(j)

(***************************************************************************)
(* C9, as stated: a struct with a field that lacks the flag tag or has an  *)
(* unsupported type makes Behold abort; it never returns.                  *)
(***************************************************************************)
Dropped(i) == ~fields[i].hasFlag \/ fields[i].type \notin SupportedTypes

C10_Duration ==
    Returned =>
        \A i \in 1..NumField :
            ( /\ fields[i].type = "time.duration"
              /\ fields[i].hasFlag /\ fields[i].exported
              /\ fields[i].default = <<"3", "4", "s">>
              /\ NoSource(i) )
            => config[i] = 34

(***************************************************************************)
(* C11: when Behold applies the sources, GetFlagValue of a field reports   *)
(* present only if a flag argument for the field is on the command line    *)
(* and the value the flag package parsed from it differs from the field's  *)
(* parsed default; with no such argument, or with a parsed value equal to  *)
(* the parsed default, it reports absent.                                  *)
(***************************************************************************)
\* The text the last flag argument of field i carries.
FlagText(i) ==
    LET k == CHOOSE k \in FlagArgs(i) : \A j \in FlagArgs(i) : j <= k
    IN  FlagArgValue(SubSeq(osArgs, k, Len(osArgs)), fields[i].type = "bool")

C11_FlagPresence ==
    pc = "apply" =>
        \A i \in 1..NumField :
            (Resolvable(i) /\ GetFlagValue(containers[i]).ok) =>
                /\ FlagArgs(i) # {}
                /\ FlagRawValue(fields[i].type, FlagText(i)) # ParsedDefault(i)

(***************************************************************************)
(* C12: GetEnvFileValue follows the rules of GetEnvValue: it reports       *)
(* present exactly when the env-file mapping has an entry for the field's  *)
(* name whose value is not empty and parses as the field's type, then      *)
(* with the parsed value; and an entry NAME=v gives the same result as an  *)
(* environment variable NAME=v.                                            *)
(***************************************************************************)
C12_EnvFileAsEnv ==
    pc = "apply" =>
        \A i \in 1..NumField :
            LET c   == containers[i]
                t   == fields[i].type
                has == c.envName \in DOMAIN c.envFile
                v   == c.envFile[c.envName]
            IN  Resolvable(i) =>
                  /\ GetEnvFileValue(c).ok <=> (has /\ v # <<>> /\ RawValid(t, v))
                  /\ GetEnvFileValue(c).ok => GetEnvFileValue(c).v = RawValue(t, v)
                  /\ (has /\ EnvSet(i) /\ environ[c.envName] = v)
                        => GetEnvFileValue(c) = GetEnvValue(c)

(***************************************************************************)
(* C13: the value Behold leaves in a field of a supported type with a flag *)
(* tag does not depend on what the field held before the call: once the    *)
(* containers are built the field holds its parsed default whatever it     *)
(* held, and two runs that differ only in the contents of the object end   *)
(* with the same value in the field.                                       *)
(***************************************************************************)
C13_PreIndependent ==
    /\ pc = "parse" =>
          \A i \in 1..NumField : Resolvable(i) =>
              config[i] = ParsedDefault(i) /\ twin[i] = ParsedDefault(i)
    /\ Returned =>
          \A i \in 1..NumField : Resolvable(i) => config[i] = twin[i]

\* Behold returned on an object that held a non-zero value in a field the
\* twin run began with another value in; the field was overridden by a source.
C13_Witness ==
    /\ Returned
    /\ \E i \in 1..NumField :
          /\ Resolvable(i)
          /\ pre[i] # ZeroValue(fields[i].type)
          /\ OtherObject(pre)[i] # pre[i]
          /\ config[i] # pre[i]
          /\ config[i] # ParsedDefault(i)

====
